---- MODULE Spec2Model ----
(***************************************************************************)
(* Process management, FIFO ready queue and mmap/munmap of the os5 kernel  *)
(* (os5/src/syscall/process.rs, os5/src/task/manager.rs).                  *)
(*                                                                         *)
(* A task is identified by its pid: the kernel never has two live task     *)
(* control blocks with the same pid, so the pid doubles as the Arc         *)
(* pointer.  `tasks` maps every live task to its control block; a task     *)
(* leaves `tasks` when its last strong reference is dropped.               *)
(***************************************************************************)
EXTENDS Integers, Sequences, FiniteSets, TLC

VARIABLES
    tasks,        \* live TaskControlBlocks, keyed by pid
    ready_queue,  \* TASK_MANAGER.ready_queue
    current,      \* PROCESSOR.current (NoTask when the idle loop runs)
    panicked,     \* the kernel hit a failed assertion
    last          \* the last kernel entry: operation, arguments, result

vars == <<tasks, ready_queue, current, panicked, last>>

----------------------------------------------------------------------------
(* Bounds of the model *)

MaxPid == 2       \* pids are 0..MaxPid
MaxVpn == 2       \* the modelled window of the address space: pages 0..MaxVpn-1
MaxPort == 16     \* permission decoding is examined on the ports 0..MaxPort

(* Program constants *)

NoTask == -1      \* Option::None of an Option<Arc<TaskControlBlock>> / Weak
PAGE_SIZE == 4096
INITPROC == 0     \* pid of the bootstrap task

Pids == 0..MaxPid
Vpns == 0..(MaxVpn - 1)
ExitCodes == {0, 7}
Apps == {"a", "b"}
Paths == Apps \cup {"nope"}
NoData == "none"

----------------------------------------------------------------------------
(* Sequences *)

Range(s) == {s[i] : i \in 1..Len(s)}

RemoveAt(s, i) == SubSeq(s, 1, i - 1) \o SubSeq(s, i + 1, Len(s))

Occurrences(s, x) == Cardinality({i \in 1..Len(s) : s[i] = x})

----------------------------------------------------------------------------
(* Address arithmetic (mm::address) *)

page_offset(va) == va % PAGE_SIZE

floor(va) == va \div PAGE_SIZE

ceil(va) == (va + PAGE_SIZE - 1) \div PAGE_SIZE

VPNRange(s, e) == s..(e - 1)

(* An address space: the permission flags of every page, {} when the page  *)
(* has no valid page-table entry.                                          *)
EmptySpace == [vpn \in Vpns |-> {}]

is_valid(ms, vpn) == vpn \in DOMAIN ms /\ ms[vpn] # {}

MappedPages(ms) == {vpn \in DOMAIN ms : ms[vpn] # {}}

(* loader::get_app_data_by_name *)
get_app_data_by_name(path) == IF path \in Apps THEN path ELSE NoData

(* MemorySet::from_elf: the image of each known binary *)
from_elf(data) ==
    IF data = "a"
    THEN [vpn \in Vpns |-> IF vpn = 0 THEN {"U", "R", "X"} ELSE {}]
    ELSE [vpn \in Vpns |-> IF vpn = 0 THEN {"U", "R", "W"} ELSE {}]

insert_framed_area(ms, start_va, end_va, perm) ==
    [vpn \in DOMAIN ms |->
        IF vpn \in VPNRange(floor(start_va), ceil(end_va)) THEN perm ELSE ms[vpn]]

unmap_pages(ms, range) ==
    [vpn \in DOMAIN ms |-> IF vpn \in range THEN {} ELSE ms[vpn]]

----------------------------------------------------------------------------
(* impl TryFrom<usize> for MapPermission *)

Err == [ok |-> FALSE, perm |-> {}]

Ok(permission) == [ok |-> TRUE, perm |-> permission]

\* mutant: the bits above bit 2 are not examined
MapPermission_low_bits(port) ==
    IF (port % 8) = 0
    THEN Err
    ELSE Ok({"U"} \cup (IF port % 2 # 0 THEN {"R"} ELSE {})
                  \cup (IF (port \div 2) % 2 # 0 THEN {"W"} ELSE {})
                  \cup (IF (port \div 4) % 2 # 0 THEN {"X"} ELSE {}))

\* mutant: the User flag is left out of the decoded permission
MapPermission_no_user(port) ==
    IF (port \div 8) # 0 \/ (port % 8) = 0
    THEN Err
    ELSE Ok((IF port % 2 # 0 THEN {"R"} ELSE {})
            \cup (IF (port \div 2) % 2 # 0 THEN {"W"} ELSE {})
            \cup (IF (port \div 4) % 2 # 0 THEN {"X"} ELSE {}))

MapPermission_try_from(port) ==
    IF (port \div 8) # 0 \/ (port % 8) = 0
    THEN Err
    ELSE Ok({"U"} \cup (IF port % 2 # 0 THEN {"R"} ELSE {})
                  \cup (IF (port \div 2) % 2 # 0 THEN {"W"} ELSE {})
                  \cup (IF (port \div 4) % 2 # 0 THEN {"X"} ELSE {}))

----------------------------------------------------------------------------
(* TaskManager: the FIFO ready queue *)

\* mutant: the task is put at the head of the queue
add_front(q, task) == <<task>> \o q

add(q, task) == Append(q, task)

\* mutant: the task added last is handed out
fetch_back(q) ==
    IF q = <<>> THEN [task |-> NoTask, queue |-> <<>>]
    ELSE [task |-> q[Len(q)], queue |-> SubSeq(q, 1, Len(q) - 1)]

\* mutant: the head is handed out and stays in the queue
fetch_peek(q) ==
    IF q = <<>> THEN [task |-> NoTask, queue |-> <<>>]
    ELSE [task |-> Head(q), queue |-> q]

\* fetch: the task handed out (NoTask on an empty queue) and the queue left
fetch(q) ==
    IF q = <<>> THEN [task |-> NoTask, queue |-> <<>>]
    ELSE [task |-> Head(q), queue |-> Tail(q)]

----------------------------------------------------------------------------
(* Task control blocks *)

\* TaskControlBlock::new(data): a fresh task running the image `data`
TaskControlBlock_new(pid, data) ==
    [pid |-> pid, status |-> "Ready", parent |-> NoTask, children |-> <<>>,
     exit_code |-> 0, memory_set |-> from_elf(data), x10 |-> 0]

\* TaskControlBlock::exec(data): a new address space and a fresh trap context
exec(tcb, data) == [tcb EXCEPT !.memory_set = from_elf(data), !.x10 = 0]

\* TaskControlBlock::fork: a copy of the parent's address space and trap context
fork(parent_tcb, pid) ==
    [pid |-> pid, status |-> "Ready", parent |-> parent_tcb.pid, children |-> <<>>,
     exit_code |-> 0, memory_set |-> parent_tcb.memory_set, x10 |-> parent_tcb.x10]

getpid(tcb) == tcb.pid

is_zombie(tcb) == tcb.status = "Zombie"

\* pid_alloc: any identity no live task holds
FreePids(ts) == Pids \ {ts[t].pid : t \in DOMAIN ts}

\* Arc::strong_count: the ready queue, the processor, the INITPROC static and
\* the children collections hold the strong references to a task
strong_count(ts, rq, cur, t) ==
    Occurrences(rq, t)
    + (IF cur = t THEN 1 ELSE 0)
    + (IF t = INITPROC THEN 1 ELSE 0)
    + Cardinality(UNION {{<<p, i>> : i \in {j \in 1..Len(ts[p].children) :
                                                 ts[p].children[j] = t}} :
                         p \in DOMAIN ts})

RECURSIVE Closure(_, _)
Closure(ts, S) ==
    LET T == S \cup UNION {Range(ts[t].children) : t \in S}
    IN  IF T = S THEN S ELSE Closure(ts, T)

\* the tasks some strong reference still reaches
Live(ts, rq, cur) ==
    Closure(ts, ({INITPROC} \cup Range(rq) \cup {cur}) \cap DOMAIN ts)

\* Drop for Arc<TaskControlBlock>: a task nothing references is freed, with the
\* references its children collection held; a Weak to it no longer upgrades
drop_unreferenced(ts, rq, cur) ==
    LET L == Live(ts, rq, cur)
    IN  [t \in L |-> [ts[t] EXCEPT !.parent = IF @ \in L THEN @ ELSE NoTask]]

----------------------------------------------------------------------------
(* The record of the last kernel entry *)

Entry(op, caller) ==
    [op |-> op, caller |-> caller, arg |-> 0, path |-> "", start |-> 0, len |-> 0,
     port |-> 0, ret |-> 0, wrote |-> FALSE, out |-> 0, fetched |-> NoTask,
     after |-> "none"]

\* trap_handler: the syscall's result goes to the caller's x[10]
SetRet(ts, t, r) == [ts EXCEPT ![t].x10 = r]

Init ==
    /\ tasks = (INITPROC :> TaskControlBlock_new(INITPROC, "a"))
    /\ ready_queue = add(<<>>, INITPROC)
    /\ current = NoTask
    /\ panicked = FALSE
    /\ last = Entry("boot", NoTask)

Running == ~panicked /\ current # NoTask

\* run_tasks, one turn of the idle loop: fetch a task and switch to it
Schedule(ts, rq, entry) ==
    LET fetched == fetch(rq)
        next == fetched.task
    IN  /\ ready_queue' = fetched.queue
        /\ current' = next
        /\ tasks' = IF next = NoTask THEN ts ELSE [ts EXCEPT ![next].status = "Running"]
        /\ last' = [entry EXCEPT !.fetched = next]

run_tasks ==
    /\ ~panicked
    /\ current = NoTask
    /\ Schedule(tasks, ready_queue, Entry("run_tasks", NoTask))
    /\ UNCHANGED panicked

\* exit_current_and_run_next(exit_code)
exit_current_and_run_next(exit_code, entry) ==
    LET ts1 == [tasks EXCEPT ![current].status = "Zombie",
                             ![current].exit_code = exit_code,
                             ![current].memory_set = EmptySpace,
                             ![current].x10 = 0]
        ts2 == drop_unreferenced(ts1, ready_queue, NoTask)
    IN  Schedule(ts2, ready_queue, entry)

\* mutant: the exit code handed on is not the one the task gave
sys_exit_zero(exit_code) ==
    /\ Running
    /\ exit_current_and_run_next(0, [Entry("exit", current) EXCEPT !.arg = exit_code])
    /\ UNCHANGED panicked

\* sys_exit -> exit_current_and_run_next; the trap context lives in a page of the
\* address space and is released with it
sys_exit(exit_code) ==
    /\ Running
    /\ exit_current_and_run_next(exit_code,
                                 [Entry("exit", current) EXCEPT !.arg = exit_code])
    /\ UNCHANGED panicked

\* sys_yield -> suspend_current_and_run_next
sys_yield ==
    /\ Running
    /\ LET ts1 == [tasks EXCEPT ![current].status = "Ready"]
       IN  Schedule(SetRet(ts1, current, 0), add(ready_queue, current),
                    [Entry("yield", current) EXCEPT !.ret = 0])
    /\ UNCHANGED panicked

sys_getpid ==
    /\ Running
    /\ LET r == getpid(tasks[current])
       IN  /\ tasks' = SetRet(tasks, current, r)
           /\ last' = [Entry("getpid", current) EXCEPT !.ret = r]
    /\ UNCHANGED <<ready_queue, current, panicked>>

\* mutant: the child's x[10] is left as copied from the parent
sys_fork_unpatched(new_pid) ==
    LET new_task == fork(tasks[current], new_pid)
        ts1 == (new_pid :> new_task) @@
               [tasks EXCEPT ![current].children = Append(@, new_pid)]
    IN  /\ ready_queue' = add(ready_queue, new_pid)
        /\ tasks' = SetRet(ts1, current, new_pid)
        /\ last' = [Entry("fork", current) EXCEPT !.ret = new_pid]
        /\ UNCHANGED <<current, panicked>>

\* mutant: the child is added to the ready queue twice
sys_fork_twice(new_pid) ==
    LET new_task == fork(tasks[current], new_pid)
        ts1 == (new_pid :> new_task) @@
               [tasks EXCEPT ![current].children = Append(@, new_pid)]
        ts2 == [ts1 EXCEPT ![new_pid].x10 = 0]
    IN  /\ ready_queue' = add(add(ready_queue, new_pid), new_pid)
        /\ tasks' = SetRet(ts2, current, new_pid)
        /\ last' = [Entry("fork", current) EXCEPT !.ret = new_pid]
        /\ UNCHANGED <<current, panicked>>

sys_fork_of(new_pid) ==
    LET new_task == fork(tasks[current], new_pid)
        ts1 == (new_pid :> new_task) @@
               [tasks EXCEPT ![current].children = Append(@, new_pid)]
        ts2 == [ts1 EXCEPT ![new_pid].x10 = 0]
    IN  /\ ready_queue' = add(ready_queue, new_pid)
        /\ tasks' = SetRet(ts2, current, new_pid)
        /\ last' = [Entry("fork", current) EXCEPT !.ret = new_pid]
        /\ UNCHANGED <<current, panicked>>

sys_fork ==
    /\ Running
    /\ \E new_pid \in FreePids(tasks) : sys_fork_of(new_pid)

\* mutant: the image is replaced before the lookup's result is examined
sys_exec_early(path) ==
    /\ Running
    /\ LET data == get_app_data_by_name(path)
           r == IF data # NoData THEN 0 ELSE -1
           ts1 == [tasks EXCEPT ![current] = exec(@, data)]
       IN  /\ tasks' = SetRet(ts1, current, r)
           /\ last' = [Entry("exec", current) EXCEPT !.path = path, !.ret = r]
    /\ UNCHANGED <<ready_queue, current, panicked>>

sys_exec(path) ==
    /\ Running
    /\ LET data == get_app_data_by_name(path)
           r == IF data # NoData THEN 0 ELSE -1
           ts1 == IF data # NoData
                  THEN [tasks EXCEPT ![current] = exec(@, data)]
                  ELSE tasks
       IN  /\ tasks' = SetRet(ts1, current, r)
           /\ last' = [Entry("exec", current) EXCEPT !.path = path, !.ret = r]
    /\ UNCHANGED <<ready_queue, current, panicked>>

\* `pid as usize == p.getpid()`: a negative pid converts to a value above every pid
as_usize_eq(pid, p) == pid >= 0 /\ pid = p

\* mutant: the selector ignores the pid asked for
selects_any(pid, tcb) == TRUE

\* the selector of sys_waitpid's two closures
selects(pid, tcb) == pid = -1 \/ as_usize_eq(pid, getpid(tcb))

\* mutant: the last Zombie child selected, not the first
find_zombie_last(ts, children, pid) ==
    LET hits == {i \in 1..Len(children) :
                    is_zombie(ts[children[i]]) /\ selects(pid, ts[children[i]])}
    IN  IF hits = {} THEN 0 ELSE CHOOSE i \in hits : \A j \in hits : i >= j

\* the index of the first child that is a Zombie and selected, 0 when there is none
find_zombie(ts, children, pid) ==
    LET hits == {i \in 1..Len(children) :
                    is_zombie(ts[children[i]]) /\ selects(pid, ts[children[i]])}
    IN  IF hits = {} THEN 0 ELSE CHOOSE i \in hits : \A j \in hits : i <= j

sys_waitpid(pid) ==
    /\ Running
    /\ LET inner == tasks[current]
           entry == [Entry("waitpid", current) EXCEPT !.arg = pid]
           idx == find_zombie(tasks, inner.children, pid)
       IN  IF ~\E i \in 1..Len(inner.children) : selects(pid, tasks[inner.children[i]])
           THEN /\ tasks' = SetRet(tasks, current, -1)
                /\ last' = [entry EXCEPT !.ret = -1]
                /\ UNCHANGED <<ready_queue, current, panicked>>
           ELSE IF idx # 0
           THEN LET child == inner.children[idx]
                    ts1 == [tasks EXCEPT ![current].children = RemoveAt(@, idx)]
                    found_pid == getpid(tasks[child])
                    exit_code == tasks[child].exit_code
                IN  IF strong_count(ts1, ready_queue, current, child) + 1 # 1
                    THEN /\ panicked' = TRUE
                         /\ tasks' = ts1
                         /\ last' = entry
                         /\ UNCHANGED <<ready_queue, current>>
                    ELSE /\ tasks' = SetRet(drop_unreferenced(ts1, ready_queue, current),
                                            current, found_pid)
                         /\ last' = [entry EXCEPT !.ret = found_pid, !.wrote = TRUE,
                                                  !.out = exit_code]
                         /\ UNCHANGED <<ready_queue, current, panicked>>
           ELSE /\ tasks' = SetRet(tasks, current, -2)
                /\ last' = [entry EXCEPT !.ret = -2]
                /\ UNCHANGED <<ready_queue, current, panicked>>

\* mutant: the new task is added to the ready queue twice
sys_spawn_twice(path, data, new_pid) ==
    LET task == TaskControlBlock_new(new_pid, data)
        inner == [task EXCEPT !.parent = current]
        ts1 == (new_pid :> inner) @@
               [tasks EXCEPT ![current].children = Append(@, new_pid)]
        pid == getpid(task)
        ts2 == [ts1 EXCEPT ![new_pid] = exec(@, data)]
    IN  /\ ready_queue' = add(add(ready_queue, new_pid), new_pid)
        /\ tasks' = SetRet(ts2, current, pid)
        /\ last' = [Entry("spawn", current) EXCEPT !.path = path, !.ret = pid]
        /\ UNCHANGED <<current, panicked>>

sys_spawn_of(path, data, new_pid) ==
    LET task == TaskControlBlock_new(new_pid, data)
        inner == [task EXCEPT !.parent = current]
        ts1 == (new_pid :> inner) @@
               [tasks EXCEPT ![current].children = Append(@, new_pid)]
        pid == getpid(task)
        ts2 == [ts1 EXCEPT ![new_pid] = exec(@, data)]
    IN  /\ ready_queue' = add(ready_queue, new_pid)
        /\ tasks' = SetRet(ts2, current, pid)
        /\ last' = [Entry("spawn", current) EXCEPT !.path = path, !.ret = pid]
        /\ UNCHANGED <<current, panicked>>

\* mutant: the child is linked to the caller before the lookup's result is examined
sys_spawn_early(path) ==
    /\ Running
    /\ LET data == get_app_data_by_name(path)
       IN  IF data # NoData
           THEN \E new_pid \in FreePids(tasks) : sys_spawn_of(path, data, new_pid)
           ELSE \E new_pid \in FreePids(tasks) :
                /\ tasks' = SetRet((new_pid :> [TaskControlBlock_new(new_pid, data)
                                                EXCEPT !.parent = current]) @@
                                   [tasks EXCEPT ![current].children = Append(@, new_pid)],
                                   current, -1)
                /\ last' = [Entry("spawn", current) EXCEPT !.path = path, !.ret = -1]
                /\ UNCHANGED <<ready_queue, current, panicked>>

sys_spawn(path) ==
    /\ Running
    /\ LET data == get_app_data_by_name(path)
       IN  IF data # NoData
           THEN \E new_pid \in FreePids(tasks) : sys_spawn_of(path, data, new_pid)
           ELSE /\ tasks' = SetRet(tasks, current, -1)
                /\ last' = [Entry("spawn", current) EXCEPT !.path = path, !.ret = -1]
                /\ UNCHANGED <<ready_queue, current, panicked>>

----------------------------------------------------------------------------
(* TaskManager::mmap and TaskManager::munmap on an address space: the      *)
(* result and the address space left                                       *)

\* mutant: a zero length succeeds before the start and the port are validated
TaskManager_mmap_len_first(ms, start, len, port) ==
    LET permission == MapPermission_try_from(port)
        vpn_range == VPNRange(floor(start), ceil(start + len))
    IN  IF len = 0 THEN [ret |-> 0, ms |-> ms]
        ELSE IF page_offset(start) # 0 THEN [ret |-> -1, ms |-> ms]
        ELSE IF ~permission.ok THEN [ret |-> -1, ms |-> ms]
        ELSE IF \E vpn \in vpn_range : is_valid(ms, vpn) THEN [ret |-> -1, ms |-> ms]
        ELSE [ret |-> 0, ms |-> insert_framed_area(ms, start, start + len, permission.perm)]

\* mutant: only the first page of the range is looked up before mapping
TaskManager_mmap_first_page(ms, start, len, port) ==
    LET permission == MapPermission_try_from(port)
    IN  IF page_offset(start) # 0 THEN [ret |-> -1, ms |-> ms]
        ELSE IF ~permission.ok THEN [ret |-> -1, ms |-> ms]
        ELSE IF len = 0 THEN [ret |-> 0, ms |-> ms]
        ELSE IF is_valid(ms, floor(start)) THEN [ret |-> -1, ms |-> ms]
        ELSE [ret |-> 0, ms |-> insert_framed_area(ms, start, start + len, permission.perm)]

TaskManager_mmap(ms, start, len, port) ==
    LET permission == MapPermission_try_from(port)
        vpn_range == VPNRange(floor(start), ceil(start + len))
    IN  IF page_offset(start) # 0 THEN [ret |-> -1, ms |-> ms]
        ELSE IF ~permission.ok THEN [ret |-> -1, ms |-> ms]
        ELSE IF len = 0 THEN [ret |-> 0, ms |-> ms]
        ELSE IF \E vpn \in vpn_range : is_valid(ms, vpn) THEN [ret |-> -1, ms |-> ms]
        ELSE [ret |-> 0, ms |-> insert_framed_area(ms, start, start + len, permission.perm)]

\* mutant: one pass that unmaps each mapped page as it meets it
TaskManager_munmap_one_pass(ms, start, len) ==
    LET vpn_range == VPNRange(floor(start), ceil(start + len))
    IN  IF page_offset(start) # 0 THEN [ret |-> -1, ms |-> ms]
        ELSE IF len = 0 THEN [ret |-> 0, ms |-> ms]
        ELSE [ret |-> IF \E vpn \in vpn_range : ~is_valid(ms, vpn) THEN -1 ELSE 0,
              ms |-> unmap_pages(ms, vpn_range)]

\* mutant: the end of the range is rounded down to a page
TaskManager_munmap_round_down(ms, start, len) ==
    LET vpn_range == VPNRange(floor(start), floor(start + len))
    IN  IF page_offset(start) # 0 THEN [ret |-> -1, ms |-> ms]
        ELSE IF len = 0 THEN [ret |-> 0, ms |-> ms]
        ELSE IF \E vpn \in vpn_range : ~is_valid(ms, vpn) THEN [ret |-> -1, ms |-> ms]
        ELSE [ret |-> 0, ms |-> unmap_pages(ms, vpn_range)]

TaskManager_munmap(ms, start, len) ==
    LET vpn_range == VPNRange(floor(start), ceil(start + len))
    IN  IF page_offset(start) # 0 THEN [ret |-> -1, ms |-> ms]
        ELSE IF len = 0 THEN [ret |-> 0, ms |-> ms]
        ELSE IF \E vpn \in vpn_range : ~is_valid(ms, vpn) THEN [ret |-> -1, ms |-> ms]
        ELSE [ret |-> 0, ms |-> unmap_pages(ms, vpn_range)]

\* the requests whose page range lies in the modelled window
InWindow(start, len) == ceil(start + len) <= MaxVpn

\* every page start of the window, and one address that is not page-aligned
Starts == {p * PAGE_SIZE : p \in 0..(MaxVpn - 1)} \cup {1}

\* zero, less than a page, and every whole number of pages of the window
Lens == {0, 1} \cup {k * PAGE_SIZE : k \in 1..MaxVpn}

\* the ports mmap is called with: no bit, each valid width, a high bit alone and
\* a high bit over valid low bits
Ports == {0, 1, 3, 7, 8, 9}

sys_mmap(start, len, port) ==
    /\ Running
    /\ InWindow(start, len)
    /\ LET r == TaskManager_mmap(tasks[current].memory_set, start, len, port)
       IN  /\ tasks' = SetRet([tasks EXCEPT ![current].memory_set = r.ms], current, r.ret)
           /\ last' = [Entry("mmap", current) EXCEPT !.start = start, !.len = len,
                                                     !.port = port, !.ret = r.ret]
    /\ UNCHANGED <<ready_queue, current, panicked>>

sys_munmap(start, len) ==
    /\ Running
    /\ InWindow(start, len)
    /\ LET r == TaskManager_munmap(tasks[current].memory_set, start, len)
       IN  /\ tasks' = SetRet([tasks EXCEPT ![current].memory_set = r.ms], current, r.ret)
           /\ last' = [Entry("munmap", current) EXCEPT
                          !.start = start, !.len = len, !.ret = r.ret,
                          !.after = IF /\ last.op = "mmap" /\ last.caller = current
                                       /\ last.start = start /\ last.len = len
                                    THEN IF last.ret = 0 THEN "mmap_ok" ELSE "mmap_failed"
                                    ELSE "none"]
    /\ UNCHANGED <<ready_queue, current, panicked>>

----------------------------------------------------------------------------
(* UPSafeCell::exclusive_access: the cells each handler borrows, in the    *)
(* order it acquires and releases them.  A borrow held by a local lasts to *)
(* its drop or the end of its block, a temporary's to the end of its       *)
(* statement.                                                              *)

Inner(t) == <<"inner", t>>

TASK_MANAGER == <<"TASK_MANAGER", NoTask>>

PROCESSOR == <<"PROCESSOR", NoTask>>

Acquire(cell) == <<"acquire", cell>>

Release(cell) == <<"release", cell>>

\* a borrow that ends with the statement that made it
Access(cell) == <<Acquire(cell), Release(cell)>>

current_task_borrows == Access(PROCESSOR)

current_user_token_borrows(cur) == current_task_borrows \o Access(Inner(cur))

add_task_borrows == Access(TASK_MANAGER)

fetch_task_borrows == Access(TASK_MANAGER)

\* TaskControlBlock::exec borrows the task it is called on
exec_borrows(task) == Access(Inner(task))

\* TaskControlBlock::fork borrows the parent, then the child
fork_borrows(parent, child) == Access(Inner(parent)) \o Access(Inner(child))

\* run_tasks: the processor is held while a task is fetched and marked Running
run_tasks_borrows(next) ==
    <<Acquire(PROCESSOR)>> \o fetch_task_borrows
    \o (IF next = NoTask THEN <<>> ELSE Access(Inner(next)))
    \o <<Release(PROCESSOR)>>

suspend_borrows(cur, next) ==
    Access(PROCESSOR) \o Access(Inner(cur)) \o add_task_borrows \o run_tasks_borrows(next)

exit_borrows(cur, next) ==
    Access(PROCESSOR) \o Access(Inner(cur)) \o run_tasks_borrows(next)

sys_getpid_borrows == current_task_borrows

sys_fork_borrows(cur, new_task) ==
    current_task_borrows \o fork_borrows(cur, new_task)
    \o Access(Inner(new_task)) \o add_task_borrows

sys_exec_borrows(cur, path) ==
    current_user_token_borrows(cur)
    \o (IF get_app_data_by_name(path) # NoData
        THEN current_task_borrows \o exec_borrows(cur)
        ELSE <<>>)

\* the borrows of find's closure over the children up to the one it stops at
RECURSIVE find_borrows(_, _)
find_borrows(children, n) ==
    IF n = 0 THEN <<>>
    ELSE find_borrows(children, n - 1) \o Access(Inner(children[n]))

\* mutant: the borrow of each child find looks at is kept to the end of the call
RECURSIVE find_borrows_kept(_, _)
find_borrows_kept(children, n) ==
    IF n = 0 THEN <<>>
    ELSE <<Acquire(Inner(children[n]))>> \o find_borrows_kept(children, n - 1)
         \o <<Release(Inner(children[n]))>>

\* mutant: the children are looked at with their borrows nested
sys_waitpid_borrows_nested(ts, cur, pid) ==
    LET children == ts[cur].children
    IN  current_task_borrows \o <<Acquire(Inner(cur))>>
        \o (IF ~\E i \in 1..Len(children) : selects(pid, ts[children[i]])
            THEN <<>>
            ELSE find_borrows_kept(children, Len(children)))
        \o <<Release(Inner(cur))>>

sys_waitpid_borrows(ts, cur, pid) ==
    LET children == ts[cur].children
        idx == find_zombie(ts, children, pid)
    IN  current_task_borrows \o <<Acquire(Inner(cur))>>
        \o (IF ~\E i \in 1..Len(children) : selects(pid, ts[children[i]])
            THEN <<>>
            ELSE IF idx # 0
            THEN find_borrows(children, idx) \o Access(Inner(children[idx]))
            ELSE find_borrows(children, Len(children)))
        \o <<Release(Inner(cur))>>

\* mutant: the new task's borrow is dropped after exec, not before
sys_spawn_borrows_late_drop(cur, path, task) ==
    current_user_token_borrows(cur)
    \o (IF get_app_data_by_name(path) # NoData
        THEN <<Acquire(Inner(task))>> \o current_task_borrows
             \o <<Acquire(Inner(cur)), Release(Inner(cur))>>
             \o exec_borrows(task) \o <<Release(Inner(task))>> \o add_task_borrows
        ELSE <<>>)

sys_spawn_borrows(cur, path, task) ==
    current_user_token_borrows(cur)
    \o (IF get_app_data_by_name(path) # NoData
        THEN <<Acquire(Inner(task))>> \o current_task_borrows
             \o <<Acquire(Inner(cur)), Release(Inner(cur)), Release(Inner(task))>>
             \o exec_borrows(task) \o add_task_borrows
        ELSE <<>>)

TaskManager_mmap_borrows(cur, start, len, port) ==
    IF page_offset(start) # 0 \/ ~MapPermission_try_from(port).ok \/ len = 0
    THEN <<>>
    ELSE current_task_borrows \o Access(Inner(cur))

mmap_borrows(cur, start, len, port) ==
    <<Acquire(TASK_MANAGER)>> \o TaskManager_mmap_borrows(cur, start, len, port)
    \o <<Release(TASK_MANAGER)>>

TaskManager_munmap_borrows(cur, start, len) ==
    IF page_offset(start) # 0 \/ len = 0
    THEN <<>>
    ELSE current_task_borrows \o Access(Inner(cur))

munmap_borrows(cur, start, len) ==
    <<Acquire(TASK_MANAGER)>> \o TaskManager_munmap_borrows(cur, start, len)
    \o <<Release(TASK_MANAGER)>>

\* the cells held before the first borrow and after each borrow of a sequence:
\* the entry at n + 1 is the set held after n borrows
RECURSIVE Replay(_, _, _)
Replay(borrows, n, acc) ==
    IF n > Len(borrows) THEN acc
    ELSE LET held == acc[n]
             cell == borrows[n][2]
         IN  Replay(borrows, n + 1,
                    Append(acc, IF borrows[n][1] = "acquire"
                                THEN held \cup {cell}
                                ELSE held \ {cell}))

Held(borrows) == Replay(borrows, 1, <<{}>>)

\* RefCell::borrow_mut panics when the cell is already borrowed
BorrowMutError(borrows) ==
    \E held \in {Held(borrows)} :
        \E n \in 1..Len(borrows) :
            borrows[n][1] = "acquire" /\ borrows[n][2] \in held[n]

----------------------------------------------------------------------------
(* Specifications *)

Exit == \E exit_code \in ExitCodes : sys_exit(exit_code)

Exec == \E path \in Paths : sys_exec(path)

Spawn == \E path \in Paths : sys_spawn(path)

Waitpid == \E pid \in -2..MaxPid : sys_waitpid(pid)

Mmap == \E start \in Starts, len \in Lens, port \in Ports : sys_mmap(start, len, port)

Munmap == \E start \in Starts, len \in Lens : sys_munmap(start, len)

\* the process-management syscalls
Next ==
    \/ run_tasks
    \/ Exit
    \/ sys_yield
    \/ sys_getpid
    \/ sys_fork
    \/ Exec
    \/ Spawn
    \/ Waitpid

Spec == Init /\ [][Next]_vars

\* the memory syscalls of one task
NextMem ==
    \/ run_tasks
    \/ Exec
    \/ Mmap
    \/ Munmap

SpecMem == Init /\ [][NextMem]_vars

\* the memory syscalls of a task that has forked a child: INITPROC runs and its
\* child of pid 1 waits in the ready queue
InitPair ==
    LET parent == [TaskControlBlock_new(INITPROC, "a") EXCEPT !.status = "Running"]
        child == [fork(parent, 1) EXCEPT !.parent = INITPROC, !.x10 = 0]
    IN  /\ tasks = (INITPROC :> [parent EXCEPT !.children = <<1>>, !.x10 = 1]) @@ (1 :> child)
        /\ ready_queue = add(<<>>, 1)
        /\ current = INITPROC
        /\ panicked = FALSE
        /\ last = [Entry("fork", INITPROC) EXCEPT !.ret = 1]

NextMemPair ==
    \/ Exec
    \/ Mmap
    \/ Munmap

SpecMemPair == InitPair /\ [][NextMemPair]_vars

\* all eight syscalls together, each with the arguments that tell its outcomes
\* apart: one exit code, a known image and an unknown name, waitpid for any child
\* and for pid 1, one page above the image mapped and unmapped
ExitAll == sys_exit(7)

ExecAll == \E path \in {"a", "nope"} : sys_exec(path)

SpawnAll == \E path \in {"a", "nope"} : sys_spawn(path)

WaitpidAll == \E pid \in {-1, 1} : sys_waitpid(pid)

MmapAll == sys_mmap(PAGE_SIZE, PAGE_SIZE, 3)

MunmapAll == sys_munmap(PAGE_SIZE, PAGE_SIZE)

NextAll ==
    \/ run_tasks
    \/ ExitAll
    \/ sys_yield
    \/ sys_fork
    \/ ExecAll
    \/ SpawnAll
    \/ WaitpidAll
    \/ MmapAll
    \/ MunmapAll

SpecAll == Init /\ [][NextAll]_vars

\* the scheduler under the hypothesis that a task that was dispatched goes on to
\* yield or exit: the idle loop keeps fetching, and the running task's yield or
\* exit is not put off for ever
Fairness == WF_vars(run_tasks) /\ WF_vars(sys_yield \/ ExitAll)

NextSched ==
    \/ run_tasks
    \/ ExitAll
    \/ sys_yield
    \/ sys_fork
    \/ SpawnAll
    \/ WaitpidAll

SpecSched == Init /\ [][NextSched]_vars /\ Fairness

----------------------------------------------------------------------------
(* Properties.  A step is identified by the entry it leaves in last'; the  *)
(* unprimed variables are the state the call found.                        *)

ChildrenOf(t) == tasks[t].children

\* the children of the caller a waitpid selector matches, by position
Matching(t, pid) ==
    {i \in 1..Len(ChildrenOf(t)) : pid = -1 \/ tasks[ChildrenOf(t)[i]].pid = pid}

MatchingZombies(t, pid) ==
    {i \in Matching(t, pid) : tasks[ChildrenOf(t)[i]].status = "Zombie"}

\* every field of every task but the caller's result register is as it was
SameButResult(t) ==
    /\ DOMAIN tasks' = DOMAIN tasks
    /\ \A u \in DOMAIN tasks : [tasks'[u] EXCEPT !.x10 = 0] = [tasks[u] EXCEPT !.x10 = 0]
    /\ \A u \in DOMAIN tasks \ {t} : tasks'[u] = tasks[u]

\* C1: sys_waitpid returns -1 exactly when no child of the caller matches the
\* selector and -2 exactly when some child matches but no matching child is a
\* Zombie; in both cases the children, every task's status and exit code and the
\* ready queue are unchanged.
C1_WaitpidErrors ==
    [][(last'.op = "waitpid" /\ ~panicked') =>
        LET pid == last'.arg
            t == current
        IN  /\ (last'.ret = -1) <=> (Matching(t, pid) = {})
            /\ (last'.ret = -2) <=> (Matching(t, pid) # {} /\ MatchingZombies(t, pid) = {})
            /\ last'.ret \in {-1, -2} =>
                  /\ DOMAIN tasks' = DOMAIN tasks
                  /\ \A u \in DOMAIN tasks :
                        /\ tasks'[u].children = tasks[u].children
                        /\ tasks'[u].status = tasks[u].status
                        /\ tasks'[u].exit_code = tasks[u].exit_code
                  /\ ready_queue' = ready_queue
                  /\ ~last'.wrote]_vars

\* a waitpid for one pid answered -2 although another child is a Zombie
C1_Witness ==
    /\ last.op = "waitpid" /\ last.ret = -2 /\ last.arg >= 0
    /\ \E i \in 1..Len(ChildrenOf(last.caller)) :
          tasks[ChildrenOf(last.caller)[i]].status = "Zombie"

\* C2: a waitpid that finds a matching Zombie child returns the pid of the first
\* such child, writes the code that child exited with, and removes exactly that
\* child, the others keeping their order; the pid it returned is no longer a
\* child, and a waitpid for a pid that is not a child returns -1.
C2_WaitpidReaps ==
    [][/\ (last'.op = "waitpid" /\ ~panicked' /\ MatchingZombies(current, last'.arg) # {}) =>
            LET t == current
                hits == MatchingZombies(t, last'.arg)
                idx == CHOOSE i \in hits : \A j \in hits : i <= j
                child == ChildrenOf(t)[idx]
            IN  /\ last'.ret = tasks[child].pid
                /\ last'.wrote /\ last'.out = tasks[child].exit_code
                /\ tasks'[t].children =
                      SubSeq(ChildrenOf(t), 1, idx - 1)
                      \o SubSeq(ChildrenOf(t), idx + 1, Len(ChildrenOf(t)))
                /\ \A i \in 1..Len(tasks'[t].children) :
                      tasks'[tasks'[t].children[i]].pid # last'.ret
                /\ \A u \in DOMAIN tasks' \ {t} : tasks'[u].children = tasks[u].children
       /\ (last'.op = "waitpid" /\ ~panicked' /\ last'.arg >= 0
           /\ \A i \in 1..Len(ChildrenOf(current)) :
                 tasks[ChildrenOf(current)[i]].pid # last'.arg) => last'.ret = -1
       /\ last'.op = "exit" =>
            \A u \in DOMAIN tasks' :
               tasks'[u].pid = last'.caller => tasks'[u].exit_code = last'.arg
       /\ \A u \in DOMAIN tasks \cap DOMAIN tasks' :
            tasks[u].status = "Zombie" => tasks'[u].exit_code = tasks[u].exit_code]_vars

\* a child that exited with 7 was reaped while a sibling stays behind
C2_Witness ==
    /\ last.op = "waitpid" /\ last.ret >= 0 /\ last.wrote /\ last.out = 7
    /\ ChildrenOf(last.caller) # <<>>

\* C3: fork returns the new child's pid to the parent; the child, as it enters
\* the ready queue, has 0 in x[10]; the two values are nonnegative and differ;
\* the child's getpid() is the value the parent received.
C3_ForkReturns ==
    [][last'.op = "fork" =>
        LET born == DOMAIN tasks' \ DOMAIN tasks
        IN  /\ Cardinality(born) = 1
            /\ \A child \in born :
                  /\ last'.ret = tasks'[child].pid
                  /\ tasks'[current].x10 = last'.ret
                  /\ tasks'[child].x10 = 0
                  /\ child \in Range(ready_queue') /\ child \notin Range(ready_queue)
                  /\ last'.ret >= 0 /\ tasks'[child].x10 >= 0
                  /\ last'.ret # tasks'[child].x10
                  /\ getpid(tasks'[child]) = last'.ret]_vars

\* a task that is itself a child forked, and parent and child hold their results
C3_Witness ==
    /\ last.op = "fork" /\ last.caller # INITPROC
    /\ last.ret \in DOMAIN tasks /\ tasks[last.ret].x10 = 0
    /\ tasks[last.caller].x10 = last.ret

\* C4: after a successful fork or spawn exactly one task is new; its parent is
\* the caller, it is the last of the caller's children and the last of the ready
\* queue, no other task has it as a child, the children and the queue that were
\* there keep their order, and spawn returns its pid.
C4_NewTaskLinked ==
    [][(last'.op \in {"fork", "spawn"} /\ last'.ret # -1) =>
        LET born == DOMAIN tasks' \ DOMAIN tasks
            t == current
        IN  /\ Cardinality(born) = 1
            /\ \A new \in born :
                  /\ tasks'[new].parent = t
                  /\ tasks'[t].children = ChildrenOf(t) \o <<new>>
                  /\ ready_queue' = ready_queue \o <<new>>
                  /\ new \notin Range(ChildrenOf(t)) /\ new \notin Range(ready_queue)
                  /\ \A u \in DOMAIN tasks' \ {t} : new \notin Range(tasks'[u].children)
                  /\ \A u \in DOMAIN tasks \ {t} : tasks'[u].children = tasks[u].children
                  /\ last'.ret = tasks'[new].pid]_vars

\* a spawn whose child joined an older child and an older queue entry
C4_Witness ==
    /\ last.op = "spawn" /\ last.ret >= 0
    /\ Len(ChildrenOf(last.caller)) >= 2 /\ Len(ready_queue) >= 2
    /\ ChildrenOf(last.caller)[Len(ChildrenOf(last.caller))] = last.ret
    /\ ready_queue[Len(ready_queue)] = last.ret

\* C5: spawn for a name the loader does not know returns -1 and creates no task:
\* the ready queue, every children collection and the set of tasks are as before.
C5_SpawnUnknown ==
    [][(last'.op = "spawn" /\ get_app_data_by_name(last'.path) = NoData) =>
        /\ last'.ret = -1
        /\ ready_queue' = ready_queue
        /\ DOMAIN tasks' = DOMAIN tasks
        /\ \A u \in DOMAIN tasks : tasks'[u].children = tasks[u].children
        /\ SameButResult(current)
        /\ current' = current]_vars

\* an unknown name was refused to a caller that has a child and a waiting task
C5_Witness ==
    /\ last.op = "spawn" /\ last.path = "nope" /\ last.ret = -1
    /\ ChildrenOf(last.caller) # <<>> /\ ready_queue # <<>>

\* C6: exec for a name the loader does not know returns -1 and changes nothing of
\* the task but the result register; a successful exec returns 0 and keeps the
\* task's pid, parent, children, status and its place as the running task.
C6_ExecFrame ==
    [][last'.op = "exec" =>
        LET t == current
        IN  /\ (last'.ret = -1) <=> (get_app_data_by_name(last'.path) = NoData)
            /\ last'.ret \in {-1, 0}
            /\ last'.ret = -1 => SameButResult(t)
            /\ t \in DOMAIN tasks' /\ DOMAIN tasks' = DOMAIN tasks
            /\ tasks'[t].pid = tasks[t].pid
            /\ tasks'[t].parent = tasks[t].parent
            /\ tasks'[t].children = tasks[t].children
            /\ tasks'[t].status = "Running" /\ tasks[t].status = "Running"
            /\ tasks'[t].x10 = last'.ret
            /\ last'.ret = 0 => tasks'[t].memory_set = from_elf(last'.path)
            /\ \A u \in DOMAIN tasks \ {t} : tasks'[u] = tasks[u]
            /\ current' = t /\ ready_queue' = ready_queue]_vars

\* an unknown name was refused to a task that has a parent and a child
C6_Witness ==
    /\ last.op = "exec" /\ last.path = "nope" /\ last.ret = -1
    /\ tasks[last.caller].parent # NoTask /\ ChildrenOf(last.caller) # <<>>

\* C7: the task that calls exit(code) is a Zombie with exit_code = code; a Zombie
\* is neither in the ready queue nor the running task, and while it exists its
\* status and exit code do not change.
C7_ZombieStays ==
    [][/\ last'.op = "exit" =>
            /\ current' # last'.caller
            /\ last'.caller \notin Range(ready_queue')
            /\ last'.caller \in DOMAIN tasks' =>
                  /\ tasks'[last'.caller].status = "Zombie"
                  /\ tasks'[last'.caller].exit_code = last'.arg
       /\ \A u \in DOMAIN tasks' :
            tasks'[u].status = "Zombie" => u \notin Range(ready_queue') /\ current' # u
       /\ \A u \in DOMAIN tasks \cap DOMAIN tasks' :
            tasks[u].status = "Zombie" =>
               /\ tasks'[u].status = "Zombie"
               /\ tasks'[u].exit_code = tasks[u].exit_code]_vars

\* a task that exited with 7 is still a Zombie after another task has yielded
C7_Witness ==
    /\ last.op = "yield"
    /\ \E u \in DOMAIN tasks : tasks[u].status = "Zombie" /\ tasks[u].exit_code = 7

\* C8: yield returns 0; the caller becomes Ready at the tail of the ready queue
\* and the task that was at the head runs; when the queue was empty the caller
\* is the task that runs.
C8_YieldRotates ==
    [][last'.op = "yield" =>
        LET t == current
        IN  /\ t \in DOMAIN tasks' /\ tasks'[t].x10 = 0 /\ last'.ret = 0
            /\ DOMAIN tasks' = DOMAIN tasks
            /\ IF ready_queue = <<>>
               THEN /\ current' = t
                    /\ ready_queue' = <<>>
                    /\ tasks'[t].status = "Running"
               ELSE /\ current' = Head(ready_queue)
                    /\ ready_queue' = Tail(ready_queue) \o <<t>>
                    /\ tasks'[t].status = "Ready"
                    /\ tasks'[current'].status = "Running"]_vars

\* a yield with two tasks waiting: the head runs and the caller is the tail
C8_Witness ==
    /\ last.op = "yield" /\ Len(ready_queue) >= 2
    /\ current # last.caller /\ current # NoTask
    /\ ready_queue[Len(ready_queue)] = last.caller

\* no task's address space changed
SameMappings ==
    /\ DOMAIN tasks' = DOMAIN tasks
    /\ \A u \in DOMAIN tasks : tasks'[u].memory_set = tasks[u].memory_set

\* C9 as stated: mmap with len = 0 returns 0 and changes no mapping, for any
\* start and any port.
C9_ZeroLenAlwaysZero ==
    [][(last'.op = "mmap" /\ last'.len = 0) => (last'.ret = 0 /\ SameMappings)]_vars

\* C9 as the code has it: mmap with len = 0 changes no mapping; it returns 0 when
\* start is page-aligned and port is one of 1..7, and -1 otherwise.
C9_ZeroLenNoMapping ==
    [][(last'.op = "mmap" /\ last'.len = 0) =>
        /\ SameMappings
        /\ last'.ret \in {0, -1}
        /\ (last'.ret = 0) <=> (last'.start % PAGE_SIZE = 0 /\ last'.port \in 1..7)]_vars

\* a zero-length request at a page-aligned start was refused for its port
C9_Witness ==
    /\ last.op = "mmap" /\ last.len = 0 /\ last.ret = -1
    /\ last.start % PAGE_SIZE = 0 /\ last.port = 0

\* C10: mmap with len > 0 returns -1 and changes no mapping when start is not
\* page-aligned or port is not one of 1..7; over free pages at an aligned start
\* it succeeds for exactly the ports 1..7, the values permission decoding accepts.
C10_BadStartOrPort ==
    [][/\ \A port \in 0..MaxPort : MapPermission_try_from(port).ok <=> port \in 1..7
       /\ (last'.op = "mmap" /\ last'.len > 0) =>
            /\ (last'.start % PAGE_SIZE # 0 \/ last'.port \notin 1..7) =>
                  (last'.ret = -1 /\ SameMappings)
            /\ (/\ last'.start % PAGE_SIZE = 0
                /\ \A vpn \in Vpns :
                      (vpn * PAGE_SIZE < last'.start + last'.len
                       /\ (vpn + 1) * PAGE_SIZE > last'.start) =>
                         tasks[current].memory_set[vpn] = {}) =>
                  ((last'.ret = 0) <=> (last'.port \in 1..7))]_vars

\* a request over free pages at an aligned start was refused for a port with a
\* bit above bit 2 over valid low bits
C10_Witness ==
    /\ last.op = "mmap" /\ last.len > 0 /\ last.ret = -1
    /\ last.start % PAGE_SIZE = 0 /\ last.port = 9
    /\ \A vpn \in Vpns :
          (vpn * PAGE_SIZE < last.start + last.len /\ (vpn + 1) * PAGE_SIZE > last.start) =>
             tasks[last.caller].memory_set[vpn] = {}

\* the pages a request of len bytes at start covers, rounded to whole pages
PagesOf(start, len) ==
    (start \div PAGE_SIZE)..(((start + len + PAGE_SIZE - 1) \div PAGE_SIZE) - 1)

\* the address space of every task but t is as it was
OthersKeepMappings(t) ==
    /\ DOMAIN tasks' = DOMAIN tasks
    /\ \A u \in DOMAIN tasks \ {t} : tasks'[u].memory_set = tasks[u].memory_set

\* C11: an mmap with a page-aligned start, a port in 1..7 and len > 0 whose
\* rounded range contains a page that is already mapped returns -1 and leaves
\* every page and its permissions as they were: no page of the part that did
\* not overlap is mapped.
C11_MmapOverlap ==
    [][(/\ last'.op = "mmap" /\ last'.len > 0
        /\ last'.start % PAGE_SIZE = 0 /\ last'.port \in 1..7
        /\ \E vpn \in PagesOf(last'.start, last'.len) :
              tasks[current].memory_set[vpn] # {}) =>
            /\ last'.ret = -1
            /\ SameMappings
            /\ \A vpn \in PagesOf(last'.start, last'.len) :
                  tasks[current].memory_set[vpn] = {} =>
                     tasks'[current].memory_set[vpn] = {}]_vars

\* a refused request whose first page was free and whose later page was mapped
C11_Witness ==
    /\ last.op = "mmap" /\ last.ret = -1 /\ last.len > PAGE_SIZE
    /\ last.start % PAGE_SIZE = 0 /\ last.port \in 1..7
    /\ tasks[last.caller].memory_set[last.start \div PAGE_SIZE] = {}
    /\ \E vpn \in PagesOf(last.start, last.len) :
          tasks[last.caller].memory_set[vpn] # {}

\* C12: an mmap with len > 0 that returns 0 leaves exactly the pages of its
\* rounded range mapped with User access and Read, Write, Execute as bits 0, 1,
\* 2 of port are set; every page outside the range and every other task's
\* address space are as they were.
C12_MmapMaps ==
    [][(last'.op = "mmap" /\ last'.len > 0 /\ last'.ret = 0) =>
        LET R == PagesOf(last'.start, last'.len)
            perm == {"U"} \cup (IF last'.port % 2 = 1 THEN {"R"} ELSE {})
                          \cup (IF (last'.port \div 2) % 2 = 1 THEN {"W"} ELSE {})
                          \cup (IF (last'.port \div 4) % 2 = 1 THEN {"X"} ELSE {})
        IN  /\ R # {} /\ R \subseteq Vpns
            /\ \A vpn \in Vpns :
                  tasks'[current].memory_set[vpn] =
                     IF vpn \in R THEN perm ELSE tasks[current].memory_set[vpn]
            /\ OthersKeepMappings(current)]_vars

\* a request of less than a page mapped one whole page read-write beside a page
\* that stayed mapped, while another task exists
C12_Witness ==
    /\ last.op = "mmap" /\ last.ret = 0 /\ last.len = 1 /\ last.port = 3
    /\ tasks[last.caller].memory_set[last.start \div PAGE_SIZE] = {"U", "R", "W"}
    /\ \E vpn \in Vpns \ PagesOf(last.start, last.len) :
          tasks[last.caller].memory_set[vpn] # {}
    /\ DOMAIN tasks # {last.caller}

\* C13: munmap with a page-aligned start and len > 0 is all-or-nothing: when a
\* page of the rounded range is not mapped it returns -1 and every mapping is
\* intact; when it returns 0 every page of the range was mapped before and none
\* is mapped after, and the pages outside the range are as they were.
C13_MunmapAllOrNothing ==
    [][(last'.op = "munmap" /\ last'.len > 0 /\ last'.start % PAGE_SIZE = 0) =>
        LET R == PagesOf(last'.start, last'.len)
        IN  /\ last'.ret \in {0, -1}
            /\ (\E vpn \in R : tasks[current].memory_set[vpn] = {}) =>
                  (last'.ret = -1 /\ SameMappings)
            /\ last'.ret = 0 =>
                  /\ \A vpn \in R : tasks[current].memory_set[vpn] # {}
                  /\ \A vpn \in R : tasks'[current].memory_set[vpn] = {}
                  /\ \A vpn \in Vpns \ R :
                        tasks'[current].memory_set[vpn] = tasks[current].memory_set[vpn]
                  /\ OthersKeepMappings(current)]_vars

\* a refused munmap over a range with a mapped page and a page that is not
C13_Witness ==
    /\ last.op = "munmap" /\ last.ret = -1 /\ last.len > 0
    /\ last.start % PAGE_SIZE = 0
    /\ \E vpn \in PagesOf(last.start, last.len) : tasks[last.caller].memory_set[vpn] # {}
    /\ \E vpn \in PagesOf(last.start, last.len) : tasks[last.caller].memory_set[vpn] = {}

\* a munmap that follows at once the same task's mmap of the same start and len,
\* the start page-aligned and the port one of 1..7
UndoesMmap ==
    /\ last.op = "mmap" /\ last'.op = "munmap" /\ last'.caller = last.caller
    /\ last'.start = last.start /\ last'.len = last.len
    /\ last.start % PAGE_SIZE = 0 /\ last.port \in 1..7

\* C14 as stated: for every page-aligned start and any len, mmap followed at
\* once by munmap of the same range returns 0 both times and leaves no page of
\* the rounded range mapped.
C14_RoundTripAlways ==
    [][UndoesMmap =>
        /\ last.ret = 0 /\ last'.ret = 0
        /\ \A vpn \in PagesOf(last.start, last.len) :
              tasks'[current].memory_set[vpn] = {}]_vars

\* C14 as the code has it: with a page-aligned start and a port in 1..7, mmap
\* returns 0 exactly when no page of the rounded range is mapped already and -1
\* otherwise; after an mmap that returned 0, the munmap of the same range
\* returns 0 and leaves no page of the range mapped and the pages outside it as
\* they were; after an mmap that returned -1 the munmap returns 0 exactly when
\* every page of the range is mapped.
C14_RoundTripOverFree ==
    [][/\ (/\ last'.op = "mmap"
           /\ last'.start % PAGE_SIZE = 0 /\ last'.port \in 1..7) =>
              /\ last'.ret \in {0, -1}
              /\ (last'.ret = 0) <=>
                    \A vpn \in PagesOf(last'.start, last'.len) :
                       tasks[current].memory_set[vpn] = {}
       /\ UndoesMmap =>
              LET R == PagesOf(last.start, last.len)
              IN  /\ last.ret = 0 =>
                        /\ last'.ret = 0
                        /\ \A vpn \in R : tasks'[current].memory_set[vpn] = {}
                        /\ \A vpn \in Vpns \ R :
                              tasks'[current].memory_set[vpn] = tasks[current].memory_set[vpn]
                  /\ last.ret = -1 =>
                        ((last'.ret = 0) <=>
                            \A vpn \in R : tasks[current].memory_set[vpn] # {})]_vars

\* a munmap undid the mmap that had just succeeded, beside a page that stayed
\* mapped
C14_Witness ==
    /\ last.op = "munmap" /\ last.after = "mmap_ok" /\ last.ret = 0
    /\ last.len > 0
    /\ \A vpn \in PagesOf(last.start, last.len) : tasks[last.caller].memory_set[vpn] = {}
    /\ \E vpn \in Vpns : tasks[last.caller].memory_set[vpn] # {}

\* the tasks a step adds to the ready queue: the task a fork or a spawn
\* created, the caller of a yield
AddedBy ==
    IF last'.op \in {"fork", "spawn"} /\ last'.ret >= 0 THEN <<last'.ret>>
    ELSE IF last'.op = "yield" THEN <<current>>
    ELSE <<>>

\* the steps that fetch: the idle loop, and the dispatch a yield or an exit ends in
Fetches == last'.op \in {"run_tasks", "yield", "exit"}

\* C15: the ready queue is FIFO over every sequence of add and fetch: an add
\* puts the task at the tail and leaves the order of the queued tasks alone, a
\* fetch removes and returns the task at the head, the one added earliest, and
\* a fetch on an empty queue returns the empty signal and leaves the queue
\* empty.
C15_Fifo ==
    [][LET q1 == ready_queue \o AddedBy
       IN  IF ~Fetches THEN ready_queue' = q1
           ELSE IF q1 = <<>>
                THEN last'.fetched = NoTask /\ ready_queue' = <<>> /\ current' = NoTask
                ELSE /\ last'.fetched = Head(q1) /\ current' = Head(q1)
                     /\ ready_queue' = Tail(q1)]_vars

\* an exit with two tasks waiting handed out the head and left the other queued
C15_Witness ==
    /\ last.op = "exit" /\ last.fetched # NoTask /\ current = last.fetched
    /\ Len(ready_queue) >= 1 /\ last.fetched \notin Range(ready_queue)

\* C16: in every state that fork, spawn, exec, yield, exit, waitpid, mmap and
\* munmap reach, each task is in the ready queue at most once, every task in
\* the ready queue is Ready, and the task that runs is not in the ready queue.
C16_QueueInvariant ==
    /\ \A i \in 1..Len(ready_queue) :
          /\ Occurrences(ready_queue, ready_queue[i]) = 1
          /\ ready_queue[i] \in DOMAIN tasks
          /\ tasks[ready_queue[i]].status = "Ready"
    /\ current # NoTask =>
          /\ current \notin Range(ready_queue)
          /\ current \in DOMAIN tasks
          /\ tasks[current].status = "Running"

\* a task with a page mapped runs while another task waits in the ready queue
\* and a Zombie awaits its parent
C16_Witness ==
    /\ current # NoTask /\ Len(ready_queue) >= 1
    /\ tasks[current].memory_set[1] # {}
    /\ \E t \in DOMAIN tasks : tasks[t].status = "Zombie"

\* the strong references to t that are not its parent's children collection
OtherHolders(t) ==
    Occurrences(ready_queue, t)
    + (IF current = t THEN 1 ELSE 0)
    + Cardinality({p \in DOMAIN tasks \ {tasks[t].parent} :
                      t \in Range(tasks[p].children)})

\* C17: a Zombie child, forked or spawned, is strongly referenced by its
\* parent's children collection alone: it is not in the ready queue, it is not
\* the running task and no other task has it as a child, so the assertion of
\* sys_waitpid that the reaped child's strong count is 1 never fails.
C17_ZombieHeldByParent ==
    /\ ~panicked
    /\ \A t \in DOMAIN tasks :
          (tasks[t].status = "Zombie" /\ tasks[t].parent # NoTask) =>
              /\ tasks[t].parent \in DOMAIN tasks
              /\ Occurrences(tasks[tasks[t].parent].children, t) = 1
              /\ OtherHolders(t) = 0
              /\ strong_count(tasks, ready_queue, current, t) = 1

\* a waitpid reaped one Zombie child while another Zombie child of the caller
\* stays
C17_Witness ==
    /\ last.op = "waitpid" /\ last.wrote /\ ~panicked
    /\ last.ret \notin DOMAIN tasks
    /\ \E t \in DOMAIN tasks :
          tasks[t].status = "Zombie" /\ tasks[t].parent = last.caller

\* the borrows of the handler a step ran, from the state the call found
StepBorrows ==
    CASE last'.op = "run_tasks" -> run_tasks_borrows(last'.fetched)
      [] last'.op = "exit" -> exit_borrows(current, last'.fetched)
      [] last'.op = "yield" -> suspend_borrows(current, last'.fetched)
      [] last'.op = "getpid" -> sys_getpid_borrows
      [] last'.op = "fork" -> sys_fork_borrows(current, last'.ret)
      [] last'.op = "exec" -> sys_exec_borrows(current, last'.path)
      [] last'.op = "waitpid" -> sys_waitpid_borrows(tasks, current, last'.arg)
      [] last'.op = "spawn" -> sys_spawn_borrows(current, last'.path, last'.ret)
      [] last'.op = "mmap" ->
            mmap_borrows(current, last'.start, last'.len, last'.port)
      [] last'.op = "munmap" -> munmap_borrows(current, last'.start, last'.len)
      [] OTHER -> <<>>

\* the tasks whose exclusive access is among the cells held
TasksOf(cells) == {cell[2] : cell \in {c \in cells : c[1] = "inner"}}

\* C18 as stated: fork, spawn and waitpid take one task's exclusive access at a
\* time and release it before taking another's: at no point of a call are two
\* different tasks' exclusive accesses held.
C18_OneTaskAtATime ==
    [][last'.op \in {"fork", "spawn", "waitpid"} =>
        \A held \in {Held(StepBorrows)} :
            \A n \in DOMAIN held : Cardinality(TasksOf(held[n])) <= 1]_vars

\* C18 as the code has it: fork, spawn and waitpid never hold more than two
\* tasks' exclusive accesses, and when they hold two, one is the caller's and
\* the other is the task fork or spawn is creating or a child waitpid is looking
\* at; a spawn that creates a task and a waitpid that looks at a child do hold
\* two.
C18_CallerAndOneOther ==
    [][last'.op \in {"fork", "spawn", "waitpid"} =>
        \A held \in {Held(StepBorrows)} :
            /\ \A n \in DOMAIN held : \A ts \in {TasksOf(held[n])} :
                  /\ Cardinality(ts) <= 2
                  /\ Cardinality(ts) = 2 =>
                        /\ current \in ts
                        /\ \A t \in ts \ {current} :
                              \/ last'.op \in {"fork", "spawn"} /\ t = last'.ret
                              \/ /\ last'.op = "waitpid"
                                 /\ t \in Range(tasks[current].children)
            /\ (last'.op = "spawn" /\ last'.ret >= 0) =>
                  \E n \in DOMAIN held : TasksOf(held[n]) = {current, last'.ret}
            /\ (last'.op = "waitpid" /\ last'.ret # -1) =>
                  \E n \in DOMAIN held : \E ts \in {TasksOf(held[n])} :
                      current \in ts /\ Cardinality(ts) = 2]_vars

\* a waitpid that looked at two children, none a Zombie, while holding the
\* caller's access
C18_Witness ==
    /\ last.op = "waitpid" /\ last.ret = -2 /\ last.arg = -1
    /\ Len(tasks[last.caller].children) >= 2

\* C19: no syscall acquires an exclusive access that is already held: a task's
\* inner access is never acquired twice without a release between (spawn
\* releases the new task's before exec acquires it, waitpid holds the parent's
\* while it acquires each child's in turn), and the ready-queue manager's access
\* is not acquired again while mmap or munmap hold it; every access acquired is
\* released by the end of the call.
C19_NoDoubleAcquire ==
    [][\A borrows \in {StepBorrows} : \A held \in {Held(borrows)} :
           /\ ~BorrowMutError(borrows)
           /\ held[Len(borrows) + 1] = {}
           /\ last'.op \in {"mmap", "munmap"} =>
                 /\ borrows[1] = Acquire(TASK_MANAGER)
                 /\ \A n \in 2..Len(borrows) :
                       /\ borrows[n] # Acquire(TASK_MANAGER)
                       /\ TASK_MANAGER \in held[n]]_vars

\* an mmap that mapped a page: the caller's access was taken while the manager's
\* was held
C19_Witness ==
    /\ last.op = "mmap" /\ last.ret = 0 /\ last.len > 0
    /\ \E t \in DOMAIN tasks : tasks[t].status = "Zombie"

\* C20: no Ready task starves: when every task that is dispatched goes on to
\* yield or exit, every task in the ready queue is dispatched in the end; the
\* task with k tasks ahead of it has k - 1 ahead after each fetch and is the one
\* the fetch dispatches when none is ahead, and a step that does not fetch,
\* such as a later fork or spawn, leaves the number ahead of it as it was.
C20_NoStarvation ==
    /\ \A t \in Pids : (t \in Range(ready_queue)) ~> (current = t)
    /\ [][\A i \in 1..Len(ready_queue) :
            IF Fetches
            THEN IF i = 1 THEN current' = ready_queue[i] /\ last'.fetched = ready_queue[i]
                 ELSE /\ Len(ready_queue') >= i - 1
                      /\ ready_queue'[i - 1] = ready_queue[i]
            ELSE /\ Len(ready_queue') >= i
                 /\ ready_queue'[i] = ready_queue[i]]_vars

\* the task that waited behind another runs, and a task forked or spawned after
\* it was admitted waits in the ready queue
C20_Witness ==
    /\ last.op \in {"yield", "exit"} /\ current # NoTask /\ current # INITPROC
    /\ Len(ready_queue) >= 1
    /\ \E t \in Range(ready_queue) : tasks[t].parent = current

====
